---- MODULE Spec2Model ----
(***************************************************************************)
(* The image generator scripts of photo-calendar:                          *)
(*   create-test-event-image.py  (conference, concert, meeting + __main__) *)
(*   create-test-image.py        (create_test_image + module-level loop)   *)
(*   create_test_poster.py       (create_korean_poster + __main__)         *)
(*   test-images/test-event.py   (create_test_event_image + __main__)      *)
(* One run of one script, or one direct call of create_test_image with a   *)
(* size argument, is one behaviour.  The host (which font files exist and  *)
(* load, what the renderer measures, whether the output                    *)
(* directory exists and is writable) does not change during a run, except  *)
(* for the directory os.makedirs creates; the parts of it the script has   *)
(* not looked at yet are left open and fixed the first time it looks.      *)
(***************************************************************************)
EXTENDS Integers, Sequences, FiniteSets, TLC

VARIABLES
    prog,        \* the script being run
    pc,          \* position in the script
    call,        \* index of the generator call in the script's call list
    size,        \* the `size` argument of create_test_image
    emptyOK,     \* Image.new accepts a zero dimension on this host: "?", "yes", "no"
    present,     \* font paths os.path.exists has answered True for
    absent,      \* font paths os.path.exists has answered False for
    loadOK,      \* <<path, size>> pairs ImageFont.truetype has loaded
    loadBad,     \* <<path, size>> pairs ImageFont.truetype has raised on
    defaultHasPath, \* hasattr(ImageFont.load_default(), 'path'): "?", "yes", "no"
    bboxOK,      \* draw.textbbox works on this host: "?", "yes", "no"
    arcOK,       \* draw.arc works on this host: "?", "yes", "no"
    glyph,       \* what the renderer measures: 16ths of an em per character (-1: not asked)
    bearing,     \* what textsize adds to the textbbox width (-1: not asked)
    dirExists,   \* the directory test-images/ exists under the cwd: "?", "yes", "no"
    writable,    \* files can be created in the output location: "?", "yes", "no"
    idx,         \* 1-based index of the candidate the font loop is at
    font,        \* the local `font` (font_path in create_korean_poster)
    fonts,       \* tier -> font bound after font setup
    tried,       \* candidate indices whose presence the loop has tested
    failedAt,    \* index of the candidate whose first load raised in this call (0: none)
    resolved,    \* per finished font setup: the generator and its fonts
    y_position,  \* the vertical cursor
    k,           \* 0-based index of the next line (or drawing step)
    cmds,        \* the draw calls made on the current image, in order
    location_x,  \* create_korean_poster's local of that name
    measures,    \* the text measurements made for the current image, in order
    saved,       \* the files written so far
    truncated,   \* the files a failed save has left opened for writing and cut short
    raisedAt     \* "" or the step whose exception reached the script's caller

ctl == <<prog, call, size, emptyOK>>
hostFonts == <<present, absent, loadOK, loadBad, defaultHasPath>>
hostDraw == <<bboxOK, arcOK, glyph, bearing>>
hostFS == <<dirExists, writable>>
setup == <<idx, font, fonts, tried, failedAt, resolved>>
drawing == <<y_position, k, cmds, location_x, measures>>
out == <<saved, truncated, raisedAt>>

vars == <<pc, ctl, hostFonts, hostDraw, hostFS, setup, drawing, out>>

-----------------------------------------------------------------------------
(* Bounds of the model: the renderer's glyph advance is 0..MaxGlyph        *)
(* sixteenths of an em, and textsize reports 0..MaxBearing pixels more     *)
(* than the textbbox width.                                                 *)
MaxGlyph == 25
MaxBearing == 1

-----------------------------------------------------------------------------
(* Text lines.  A line is its text (an ASCII gloss of the Korean original) *)
(* and the facts about its characters that the code tests.                 *)
Ln(t, fl) == [txt |-> t, fl |-> fl]

IsBlank(line) == line.txt = ""                      \* not line
StartsWithBullet(line) == "bullet" \in line.fl      \* line.startswith('•')
HasTicket(line) == "ticket" \in line.fl             \* '티켓' in line
HasPrice(line) == "price" \in line.fl               \* '가격' in line
StartsWithDigit(line) == "digit" \in line.fl        \* line[0].isdigit()
HasAgenda(line) == "agenda" \in line.fl             \* '안건' in line

details ==
    << Ln("", {}),
       Ln("(calendar) date: 2025-02-15 (Sat)", {}),
       Ln("(clock) time: 2:00 - 6:00 pm", {}),
       Ln("(pin) place: COEX conference hall 3F", {}),
       Ln("", {}),
       Ln("main topics:", {}),
       Ln("* Next.js 15 new features", {"bullet"}),
       Ln("* AI and the future of web development", {"bullet"}),
       Ln("* building realtime collaboration tools", {"bullet"}),
       Ln("", {}),
       Ln("fee: free (registration required)", {}),
       Ln("contact: dev@conference.kr", {}) >>

concert_info ==
    << Ln("", {}),
       Ln("2025-03-22 Saturday", {"digit"}),
       Ln("6:00 - 11:00 pm", {}),
       Ln("", {}),
       Ln("Seoul Olympic Park", {}),
       Ln("Olympic Hall", {}),
       Ln("", {}),
       Ln("artists:", {}),
       Ln("* IU", {"bullet"}),
       Ln("* BTS", {"bullet"}),
       Ln("* NewJeans", {"bullet"}),
       Ln("* AKMU", {"bullet"}),
       Ln("", {}),
       Ln("ticket open:", {"ticket"}),
       Ln("2025-02-01 2 pm", {"digit"}),
       Ln("", {}),
       Ln("price: 99,000 won ~ 150,000 won", {"price"}),
       Ln("", {}),
       Ln("booking: www.springfest.kr", {}) >>

meeting_info ==
    << Ln("project kickoff meeting", {}),
       Ln("", {}),
       Ln("when: 2025-01-20 Monday 10:00 am", {}),
       Ln("where: HQ meeting room A (5F)", {}),
       Ln("attendees: whole dev team", {}),
       Ln("", {}),
       Ln("agenda:", {"agenda"}),
       Ln("1. project goals and schedule", {"digit"}),
       Ln("2. roles", {"digit"}),
       Ln("3. tech stack decision", {"digit"}),
       Ln("", {}),
       Ln("to bring: personal laptop", {}) >>

(* test_cases[i]['text'].split('\n') *)
test_cases ==
    << << Ln("2024 year-end party", {"digit"}), Ln("", {}),
          Ln("date: 2024-12-20 Friday", {}), Ln("time: 7 - 10 pm", {}),
          Ln("place: Gangnam stn exit 5 party hall", {}),
          Ln("fee: 30,000 won", {}), Ln("", {}),
          Ln("dress code: casual", {}), Ln("contact: 010-1234-5678", {}) >>,
       << Ln("K-POP concert", {}), Ln("", {}),
          Ln("2024-11-15 (Sat)", {"digit"}), Ln("starts 8 pm", {}),
          Ln("Jamsil Olympic main stadium", {}), Ln("", {}),
          Ln("ticket price:", {"ticket", "price"}),
          Ln("VIP seat: 150,000 won", {}), Ln("R seat: 120,000 won", {}),
          Ln("S seat: 80,000 won", {}), Ln("", {}),
          Ln("booking: Interpark ticket", {"ticket"}) >>,
       << Ln("5th AI conference", {}), Ln("", {}),
          Ln("topic: the future of generative AI", {}),
          Ln("date: 2024-10-25", {}), Ln("time: 09:00 - 18:00", {}),
          Ln("place: COEX convention center 3F", {}), Ln("", {}),
          Ln("registration closes: Oct 20", {}),
          Ln("fee: free (pre-registration required)", {}),
          Ln("homepage: www.aiconference2024.kr", {}) >>,
       << Ln("wedding invitation", {}), Ln("", {}),
          Ln("Kim Cheolsu (heart) Lee Younghee", {}), Ln("", {}),
          Ln("2024-09-28 Saturday", {"digit"}), Ln("12:30 pm", {}),
          Ln("", {}),
          Ln("The Raum wedding hall 2F", {}),
          Ln("123 Seocho-daero, Seocho-gu, Seoul", {}), Ln("", {}),
          Ln("instead of wreaths, please send", {}),
          Ln("your regards as a gift", {}) >>,
       << Ln("yoga class", {}), Ln("", {}),
          Ln("every Tuesday, Thursday", {}), Ln("10 - 11 am", {}),
          Ln("", {}),
          Ln("place: Pangyo Techno Valley ", {}),
          Ln("      fitness center 3F", {}), Ln("", {}),
          Ln("tuition: 80,000 won a month", {}),
          Ln("to bring: yoga mat, towel", {}), Ln("", {}),
          Ln("teacher: Ms Kim Yoga", {}),
          Ln("contact: 031-123-4567", {}) >> >>

-----------------------------------------------------------------------------
(* The scripts and the generator calls each makes, in order.               *)
(* The four scripts, and a direct call of create_test_image that passes     *)
(* its `size` parameter, which the module-level loop leaves at its default. *)
Progs ==
    {"event_main", "test_image_main", "poster_main", "tech_main",
     "test_image_call"}

Calls(p) ==
    CASE p = "event_main" -> <<"conference", "concert", "meeting">>
      [] p = "test_image_main" ->
            <<"test_image", "test_image", "test_image", "test_image",
              "test_image">>
      [] p = "poster_main" -> <<"poster">>
      [] p = "tech_main" -> <<"tech">>
      [] p = "test_image_call" -> <<"test_image">>

gen == Calls(prog)[call]

LoopGens == {"conference", "concert", "meeting", "test_image"}

Canvas(g) ==
    CASE g = "conference" -> [width |-> 800, height |-> 600]
      [] g = "concert" -> [width |-> 800, height |-> 1000]
      [] g = "meeting" -> [width |-> 600, height |-> 400]
      [] g = "test_image" -> [width |-> 800, height |-> 600]
      [] g = "poster" -> [width |-> 800, height |-> 1200]
      [] g = "tech" -> [width |-> 800, height |-> 600]

(* `size=(800, 600)`, the default of create_test_image's parameter.         *)
DefaultSize == [width |-> 800, height |-> 600]

(* The sizes a direct call passes.                                          *)
ArgSizes ==
    {DefaultSize, [width |-> 400, height |-> 300],
     [width |-> 0, height |-> 600], [width |-> 800, height |-> 0],
     [width |-> -1, height |-> 600]}

(* Image.new('RGB', size, color=bg_color) is the only user of size: the     *)
(* generator tests nothing about it.  The imaging library rejects a         *)
(* negative dimension; a zero dimension it rejects or answers with an       *)
(* empty image, depending on its version.                                   *)
IsNegative(sz) == sz.width < 0 \/ sz.height < 0
IsEmpty(sz) == ~IsNegative(sz) /\ (sz.width = 0 \/ sz.height = 0)
NewOutcomes(sz) ==
    IF IsNegative(sz) THEN {"no"}
    ELSE IF IsEmpty(sz) THEN {emptyOK}
    ELSE {"yes"}

font_paths(g) ==
    CASE g = "conference" ->
            << "/System/Library/Fonts/AppleSDGothicNeo.ttc",
               "/System/Library/Fonts/Helvetica.ttc",
               "/usr/share/fonts/truetype/nanum/NanumGothic.ttf",
               "/usr/share/fonts/truetype/liberation/LiberationSans-Regular.ttf",
               "C:/Windows/Fonts/malgun.ttf",
               "C:/Windows/Fonts/Arial.ttf" >>
      [] g = "concert" ->
            << "/System/Library/Fonts/AppleSDGothicNeo.ttc",
               "/System/Library/Fonts/Helvetica.ttc",
               "/usr/share/fonts/truetype/nanum/NanumGothicBold.ttf",
               "C:/Windows/Fonts/malgunbd.ttf" >>
      [] g = "meeting" ->
            << "/System/Library/Fonts/AppleSDGothicNeo.ttc",
               "/usr/share/fonts/truetype/nanum/NanumGothic.ttf",
               "C:/Windows/Fonts/malgun.ttf" >>
      [] g = "test_image" ->
            << "/System/Library/Fonts/AppleSDGothicNeo.ttc",
               "/Library/Fonts/AppleGothicRegular.ttf",
               "/System/Library/Fonts/Helvetica.ttc" >>
      [] g = "poster" ->
            << "/System/Library/Fonts/AppleSDGothicNeo.ttc",
               "/System/Library/Fonts/Helvetica.ttc",
               "/Windows/Fonts/malgun.ttf",
               "/usr/share/fonts/truetype/noto/NotoSansCJK-Regular.ttc" >>
      [] g = "tech" -> << "/System/Library/Fonts/Helvetica.ttc" >>

(* The size of the truetype call inside the candidate loop.                 *)
LoopSize(g) ==
    CASE g = "conference" -> 32
      [] g = "concert" -> 48
      [] g = "meeting" -> 24
      [] g = "test_image" -> 40

Tiers == {"title", "subtitle", "body", "small"}

(* The tiers a generator binds, and for each the size it is re-loaded at    *)
(* from font.path (0: the tier is the loop's font itself).                  *)
TierSizes(g) ==
    CASE g = "conference" -> [title |-> 0, body |-> 24]
      [] g = "concert" -> [title |-> 0, subtitle |-> 36, body |-> 28]
      [] g = "meeting" -> [title |-> 28, body |-> 0]
      [] g = "test_image" -> [body |-> 0]
      [] g = "poster" -> [title |-> 72, subtitle |-> 48, body |-> 36, small |-> 28]
      [] g = "tech" -> [title |-> 48, body |-> 32, small |-> 24]

TiersOf(g) == DOMAIN TierSizes(g)

(* Fonts.  DefaultPath stands for the .path of the built-in font, on the   *)
(* hosts where it has one.                                                  *)
DefaultPath == "<load_default>"
NoFont == [kind |-> "none", path |-> "", size |-> 0]
FileFont(p, s) == [kind |-> "file", path |-> p, size |-> s]
DefaultFont == [kind |-> "default", path |-> DefaultPath, size |-> 0]
Truetype(p, s) ==
    IF p = DefaultPath THEN [kind |-> "default", path |-> p, size |-> s]
    ELSE FileFont(p, s)

HasPath(f, dhp) == f.kind = "file" \/ (f.kind = "default" /\ dhp = "yes")

NoFonts == [t \in Tiers |-> NoFont]
(* An except clause that fills only the tiers the try block left unbound.   *)
AllDefaultKeepBound(g) ==
    [t \in Tiers |-> IF t \notin TiersOf(g) THEN NoFont
                     ELSE IF fonts[t] # NoFont THEN fonts[t]
                     ELSE DefaultFont]

AllDefault(g) == [t \in Tiers |-> IF t \in TiersOf(g) THEN DefaultFont ELSE NoFont]

-----------------------------------------------------------------------------
(* What the host answers.  A question the run has asked before gets the    *)
(* same answer; a file known to be absent does not load; a file that has   *)
(* loaded is present.                                                       *)
Outcomes(v) == IF v = "?" THEN {"yes", "no"} ELSE {v}

ExistsOutcomes(p) ==
    IF p \in present THEN {TRUE}
    ELSE IF p \in absent THEN {FALSE}
    ELSE BOOLEAN

LoadOutcomes(p, s) ==
    IF <<p, s>> \in loadOK THEN {TRUE}
    ELSE IF <<p, s>> \in loadBad \/ p \in absent THEN {FALSE}
    ELSE BOOLEAN

RecordLoad(p, s, ok) ==
    /\ loadOK' = IF ok THEN loadOK \cup {<<p, s>>} ELSE loadOK
    /\ loadBad' = IF ok THEN loadBad ELSE loadBad \cup {<<p, s>>}
    /\ present' = IF ok /\ p # DefaultPath THEN present \cup {p} ELSE present

(* The order in which a generator assigns its tiers after the loop.        *)
TierOrder(g) ==
    CASE g = "conference" -> <<"title", "body">>
      [] g = "concert" -> <<"title", "subtitle", "body">>
      [] g = "meeting" -> <<"title", "body">>
      [] g = "test_image" -> <<"body">>
      [] g = "poster" -> <<"title", "subtitle", "body", "small">>
      [] g = "tech" -> <<"title", "body", "small">>

-----------------------------------------------------------------------------
(* Font setup.                                                              *)

IndexOf(p, seq) == CHOOSE i \in 1..Len(seq) : seq[i] = p

(* A loop that resumes where the previous call's index was left.            *)
FirstCandidateStale(c) == IF c = 1 THEN 1 ELSE idx

(* The index the candidate loop starts at in every call:                    *)
(* `font = None` followed by `for font_path in font_paths`.                 *)
FirstCandidate(c) == 1

(* Where control goes when ImageFont.truetype raises inside the candidate  *)
(* loop: the try block encloses the whole loop, so to its except clause.   *)
OnLoadError == "except"

(* The loop's `font` left as it was when no candidate is found.             *)
FontLeftUnset == NoFont

(* The font bound when the loop ends without a candidate:                   *)
(* `if not font: font = ImageFont.load_default()`.                          *)
FontWhenNoneFound == DefaultFont

(* Entry of a generator call: Image.new, ImageDraw.Draw and the locals.     *)
(* test-event.py has no candidate loop: it loads its one path directly.     *)
EnterGenerator ==
    /\ pc = "enter"
    /\ gen = "test_image" => "yes" \in NewOutcomes(size)
    /\ idx' = FirstCandidate(call)
    /\ font' = IF gen = "tech" THEN FileFont(font_paths(gen)[1], 0) ELSE NoFont
    /\ fonts' = NoFonts
    /\ tried' = {}
    /\ failedAt' = 0
    /\ cmds' = << >>
    /\ k' = 0
    /\ y_position' = 0
    /\ location_x' = 0
    /\ measures' = << >>
    /\ pc' = IF gen = "tech" THEN "derive" ELSE "probe"
    /\ UNCHANGED <<ctl, hostFonts, hostDraw, hostFS, resolved, out>>

(* Image.new raises on the size it is given: nothing in create_test_image  *)
(* catches it, and the call ends before anything is drawn or opened.        *)
NewImageRaises ==
    /\ pc = "enter"
    /\ gen = "test_image"
    /\ "no" \in NewOutcomes(size)
    /\ pc' = "raised"
    /\ raisedAt' = "new"
    /\ UNCHANGED <<ctl, hostFonts, hostDraw, hostFS, setup, drawing, saved,
                   truncated>>

(* One iteration of the candidate loop up to the existence test:            *)
(* `if os.path.exists(font_path):`.  In create_korean_poster the body is    *)
(* `font_path = path; break`, in the others it goes on to truetype.         *)
ProbeCandidate ==
    /\ pc = "probe"
    /\ idx <= Len(font_paths(gen))
    /\ LET p == font_paths(gen)[idx] IN
       \E e \in ExistsOutcomes(p) :
          /\ present' = IF e THEN present \cup {p} ELSE present
          /\ absent' = IF e THEN absent ELSE absent \cup {p}
          /\ tried' = tried \cup {idx}
          /\ IF ~e
             THEN /\ idx' = idx + 1
                  /\ pc' = "probe"
                  /\ font' = font
             ELSE IF gen = "poster"
             THEN /\ idx' = idx
                  /\ pc' = "after_loop"
                  /\ font' = FileFont(p, 0)
             ELSE /\ idx' = idx
                  /\ pc' = "load"
                  /\ font' = font
    /\ UNCHANGED <<ctl, loadOK, loadBad, defaultHasPath, hostDraw, hostFS,
                   fonts, failedAt, resolved, drawing, out>>

(* `font = ImageFont.truetype(font_path, size); break` in the loop.         *)
LoadCandidate ==
    /\ pc = "load"
    /\ LET p == font_paths(gen)[idx]
           s == LoopSize(gen) IN
       \E ok \in LoadOutcomes(p, s) :
          /\ RecordLoad(p, s, ok)
          /\ IF ok
             THEN /\ font' = FileFont(p, s)
                  /\ pc' = "after_loop"
                  /\ failedAt' = failedAt
             ELSE /\ font' = font
                  /\ pc' = OnLoadError
                  /\ failedAt' = idx
    /\ UNCHANGED <<ctl, absent, defaultHasPath, hostDraw, hostFS, idx, fonts,
                   tried, resolved, drawing, out>>

(* The loop runs out of candidates.                                         *)
LoopExhausted ==
    /\ pc = "probe"
    /\ idx > Len(font_paths(gen))
    /\ pc' = "after_loop"
    /\ UNCHANGED <<ctl, hostFonts, hostDraw, hostFS, setup, drawing, out>>

(* After the loop: `if not font: font = ImageFont.load_default()`; in       *)
(* create_korean_poster `if font_path: ... else:` all four tiers default.   *)
AfterLoop ==
    /\ pc = "after_loop"
    /\ IF gen = "poster" /\ font = NoFont
       THEN /\ fonts' = AllDefault(gen)
            /\ resolved' = Append(resolved, [gen |-> gen, fonts |-> fonts'])
            /\ pc' = "head"
            /\ UNCHANGED <<font, idx>>
       ELSE /\ font' = IF font = NoFont THEN FontWhenNoneFound ELSE font
            /\ idx' = 1
            /\ pc' = "derive"
            /\ UNCHANGED <<fonts, resolved>>
    /\ UNCHANGED <<ctl, hostFonts, hostDraw, hostFS, tried, failedAt, drawing,
                   out>>

(* One tier assignment after the loop, in source order:                     *)
(*   title_font = font                                                      *)
(*   body_font = ImageFont.truetype(font.path, 24)                          *)
(*                   if hasattr(font, 'path') else font                     *)
(* and in create_korean_poster and test-event.py a plain truetype call.     *)
(* A truetype that raises leaves the try block for its except clause.       *)
BindTier ==
    /\ pc = "derive"
    /\ idx <= Len(TierOrder(gen))
    /\ LET t == TierOrder(gen)[idx]
           s == TierSizes(gen)[t]
           last == idx = Len(TierOrder(gen))
           bound(f) ==
              /\ fonts' = [fonts EXCEPT ![t] = f]
              /\ idx' = idx + 1
              /\ pc' = IF last THEN "head" ELSE "derive"
              /\ resolved' = IF last
                             THEN Append(resolved, [gen |-> gen, fonts |-> fonts'])
                             ELSE resolved
       IN
       IF s = 0
       THEN /\ bound(font)
            /\ UNCHANGED hostFonts
       ELSE \E dhp \in (IF font.kind = "default" THEN Outcomes(defaultHasPath)
                        ELSE {defaultHasPath}) :
               /\ defaultHasPath' = dhp
               /\ IF ~HasPath(font, dhp)
                  THEN /\ bound(font)
                       /\ UNCHANGED <<present, loadOK, loadBad>>
                  ELSE \E ok \in LoadOutcomes(font.path, s) :
                          /\ RecordLoad(font.path, s, ok)
                          /\ IF ok
                             THEN bound(Truetype(font.path, s))
                             ELSE /\ pc' = "except"
                                  /\ UNCHANGED <<fonts, idx, resolved>>
               /\ UNCHANGED absent
    /\ failedAt' = IF pc' = "except" /\ gen = "poster"
                   THEN IndexOf(font.path, font_paths(gen))
                   ELSE failedAt
    /\ UNCHANGED <<ctl, hostDraw, hostFS, font, tried, drawing, out>>

(* The except clause of font setup: every tier is the built-in font.        *)
FontFallback ==
    /\ pc = "except"
    /\ font' = DefaultFont
    /\ fonts' = AllDefault(gen)
    /\ resolved' = Append(resolved, [gen |-> gen, fonts |-> fonts'])
    /\ pc' = "head"
    /\ UNCHANGED <<ctl, hostFonts, hostDraw, hostFS, idx, tried, failedAt,
                   drawing, out>>

-----------------------------------------------------------------------------
(* Draw calls.  Every call on the ImageDraw object is logged with its      *)
(* arguments; k is the index of the line in the line loop, -1 outside it.  *)
Text(x, y, line, color, tier, anchor, kk) ==
    [op |-> "text", x |-> x, y |-> y, x1 |-> x, y1 |-> y, line |-> line,
     color |-> color, tier |-> tier, anchor |-> anchor, k |-> kk]

Shape(op, x, y, x1, y1, color) ==
    [op |-> op, x |-> x, y |-> y, x1 |-> x1, y1 |-> y1, line |-> Ln("", {}),
     color |-> color, tier |-> "", anchor |-> "", k |-> -1]

(* The line list of a generator call.                                       *)
LinesOf(g, c) ==
    CASE g = "conference" -> details
      [] g = "concert" -> concert_info
      [] g = "meeting" -> meeting_info
      [] g = "test_image" -> test_cases[c]

(* `y_position = 120` etc. before the loop.                                 *)
StartOffset(g) ==
    CASE g = "conference" -> 120
      [] g = "concert" -> 300
      [] g = "meeting" -> 100
      [] g = "test_image" -> 50

(* `y_position += 35` etc. at the end of the loop body.                     *)
LinePitch(g) ==
    CASE g = "conference" -> 35
      [] g = "concert" -> 40
      [] g = "meeting" -> 25
      [] g = "test_image" -> 60

(* The x every line is drawn from unless the generator decides otherwise.   *)
LeftMargin(g) ==
    CASE g = "conference" -> 50
      [] g = "concert" -> 50
      [] g = "meeting" -> 30
      [] g = "test_image" -> 50

(* The x of a loop that does not single out bullet lines.                   *)
LineXNoBullet(g, line) ==
    IF g = "concert" THEN Canvas(g).width \div 2 - 150 ELSE LeftMargin(g)

(* `x_position = 50 if line.startswith('•') else width//2 - 150` in         *)
(* create_concert_poster; the constant first argument of draw.text in the   *)
(* other line loops.                                                        *)
LineX(g, line) ==
    IF g = "concert"
    THEN IF StartsWithBullet(line) THEN 50 ELSE Canvas(g).width \div 2 - 150
    ELSE LeftMargin(g)

(* A colour rule that tests the ticket keyword only.                        *)
LineColorTicketOnly(g, line) ==
    CASE g = "concert" -> IF HasTicket(line) THEN "#f39c12" ELSE "white"
      [] g = "meeting" ->
            IF ~IsBlank(line) /\ ~StartsWithDigit(line) /\ ~HasAgenda(line)
            THEN "#2c3e50" ELSE "#555555"
      [] g = "conference" -> "black"
      [] g = "test_image" -> "black"

(* `color = '#f39c12' if '티켓' in line or '가격' in line else 'white'`,    *)
(* `color = '#2c3e50' if line and not line[0].isdigit()                     *)
(*                       and '안건' not in line else '#555555'`,            *)
(* fill='black' and fill=text_color.                                        *)
LineColor(g, line) ==
    CASE g = "concert" ->
            IF HasTicket(line) \/ HasPrice(line) THEN "#f39c12" ELSE "white"
      [] g = "meeting" ->
            IF ~IsBlank(line) /\ ~StartsWithDigit(line) /\ ~HasAgenda(line)
            THEN "#2c3e50" ELSE "#555555"
      [] g = "conference" -> "black"
      [] g = "test_image" -> "black"

(* The cursor after a line has been drawn.                                  *)
NextY(g, y) == y + LinePitch(g)

(* A loop body that makes no draw.text call for a blank line.               *)
LineCmdsSkipBlank(g, line, y, kk) ==
    IF IsBlank(line) THEN << >>
    ELSE << Text(LineX(g, line), y, line, LineColor(g, line), "body", "la", kk) >>

(* The draw.text call of the loop body: made for every line of the list.    *)
LineCmds(g, line, y, kk) ==
    << Text(LineX(g, line), y, line, LineColor(g, line), "body", "la", kk) >>

(* What a generator draws before its line loop.                             *)
HeadCmds(g) ==
    LET w == Canvas(g).width
        h == Canvas(g).height IN
    CASE g = "conference" ->
            << Shape("rectangle", 20, 20, w - 20, h - 20, "black"),
               Text(50, 50, Ln("2025 developer conference", {"digit"}),
                    "black", "title", "la", -1) >>
      [] g = "concert" ->
            << Shape("rectangle", 30, 30, w - 30, h - 30, "#f39c12"),
               Text(w \div 2 - 150, 80, Ln("SPRING", {}), "#f39c12",
                    "title", "la", -1),
               Text(w \div 2 - 180, 140, Ln("MUSIC FESTIVAL", {}), "#f39c12",
                    "subtitle", "la", -1),
               Text(w \div 2 - 100, 200, Ln("2025", {"digit"}), "white",
                    "subtitle", "la", -1) >>
      [] g = "meeting" ->
            << Shape("rectangle", 0, 0, w, 80, "#2c3e50"),
               Text(w \div 2 - 80, 25, Ln("meeting notice", {}), "white",
                    "title", "la", -1) >>
      [] g = "test_image" -> << >>

DrawHead ==
    /\ pc = "head"
    /\ gen \in LoopGens
    /\ cmds' = HeadCmds(gen)
    /\ y_position' = StartOffset(gen)
    /\ k' = 0
    /\ pc' = "lines"
    /\ UNCHANGED <<ctl, hostFonts, hostDraw, hostFS, setup, location_x,
                   measures, out>>

(* One iteration of `for line in ...:`.                                     *)
DrawLine ==
    /\ pc = "lines"
    /\ k < Len(LinesOf(gen, call))
    /\ cmds' = cmds \o LineCmds(gen, LinesOf(gen, call)[k + 1], y_position, k)
    /\ y_position' = NextY(gen, y_position)
    /\ k' = k + 1
    /\ UNCHANGED <<pc, ctl, hostFonts, hostDraw, hostFS, setup, location_x,
                   measures, out>>

LinesDone ==
    /\ pc = "lines"
    /\ k = Len(LinesOf(gen, call))
    /\ pc' = "save"
    /\ UNCHANGED <<ctl, hostFonts, hostDraw, hostFS, setup, drawing, out>>

-----------------------------------------------------------------------------
(* Persisting.                                                              *)
OutFile(p, c) ==
    CASE p = "event_main" ->
            <<"test-images/conference.png", "test-images/concert.png",
              "test-images/meeting.png">>[c]
      [] p = "test_image_main" ->
            <<"test-images/year_end_party.png", "test-images/concert.png",
              "test-images/conference.png",
              "test-images/wedding_invitation.png",
              "test-images/yoga_class.png">>[c]
      [] p = "poster_main" -> "korean_kpop_festival_poster.png"
      [] p = "tech_main" -> "<script dir>/tech-conference-2025.png"
      [] p = "test_image_call" -> "<filename>"

(* The scripts whose output path lies in test-images/ under the cwd; the    *)
(* other two write into the cwd and into the script's own directory.        *)
UnderTestImages(p) == p \in {"event_main", "test_image_main"}

(* What the script does about the output directory before it saves:         *)
(* __main__ of create-test-event-image.py calls os.makedirs, the            *)
(* module-level loop of create-test-image.py calls nothing.                 *)
CreatesDir(p) == p = "event_main"

(* `os.makedirs("test-images", exist_ok=True)`.                             *)
MakeDirs ==
    /\ pc = "makedirs"
    /\ \E d \in Outcomes(dirExists) :
          IF d = "yes"
          THEN /\ dirExists' = "yes"
               /\ pc' = "enter"
               /\ UNCHANGED <<writable, raisedAt>>
          ELSE \E w \in Outcomes(writable) :
                  /\ writable' = w
                  /\ IF w = "yes"
                     THEN /\ dirExists' = "yes"
                          /\ pc' = "enter"
                          /\ raisedAt' = raisedAt
                     ELSE /\ dirExists' = "no"
                          /\ pc' = "raised"
                          /\ raisedAt' = "makedirs"
    /\ UNCHANGED <<ctl, hostFonts, hostDraw, setup, drawing, saved, truncated>>

(* `image.save(filename)`: fails when the directory is missing or the       *)
(* location is not writable, and the exception is not caught anywhere.      *)
(* An empty image (a zero dimension) is refused by the encoder after the    *)
(* file has been opened for writing; whether the cut-short file is left     *)
(* behind depends on the library version and on the file having existed.    *)
Save ==
    /\ pc = "save"
    /\ \E d \in (IF UnderTestImages(prog) THEN Outcomes(dirExists)
                 ELSE {dirExists}),
          w \in Outcomes(writable) :
          /\ dirExists' = d
          /\ writable' = w
          /\ IF d = "no" \/ w # "yes"
             THEN /\ UNCHANGED <<saved, truncated>>
                  /\ pc' = "raised"
                  /\ raisedAt' = "save"
             ELSE IF gen = "test_image" /\ IsEmpty(size)
             THEN \E kept \in BOOLEAN :
                     /\ truncated' = IF kept
                                     THEN truncated \cup {OutFile(prog, call)}
                                     ELSE truncated
                     /\ saved' = saved
                     /\ pc' = "raised"
                     /\ raisedAt' = "save"
             ELSE /\ saved' = saved \cup {OutFile(prog, call)}
                  /\ truncated' = truncated
                  /\ pc' = "returned"
                  /\ raisedAt' = raisedAt
    /\ UNCHANGED <<ctl, hostFonts, hostDraw, setup, drawing>>

(* The script makes its next call, the finished call's locals being gone,   *)
(* or ends.                                                                 *)
Return ==
    /\ pc = "returned"
    /\ IF call < Len(Calls(prog))
       THEN /\ call' = call + 1
            /\ pc' = "enter"
            /\ cmds' = << >>
            /\ measures' = << >>
            /\ k' = 0
            /\ y_position' = 0
            /\ fonts' = NoFonts
            /\ font' = NoFont
       ELSE /\ call' = call
            /\ pc' = "done"
            /\ UNCHANGED <<cmds, measures, k, y_position, fonts, font>>
    /\ UNCHANGED <<prog, size, emptyOK, hostFonts, hostDraw, hostFS, idx,
                   tried, failedAt, resolved, location_x, out>>

-----------------------------------------------------------------------------
(* create_korean_poster.                                                    *)
title_y == 100
line_y == title_y + 100
date_y == line_y + 60
time_y == date_y + 70
location_y == time_y + 120
price_y == location_y + 120
box_padding == 20
corner_size == 50
bottom_line_y == Canvas("poster").height - 100

event_title == Ln("2025 K-POP festival", {"digit"})
event_date == Ln("2025-09-15 (Sat)", {"digit"})
event_time == Ln("7:30 pm", {})
event_location == Ln("Jamsil Olympic Park KSPO dome", {})
event_price == Ln("VIP 150,000 won / general 80,000 won", {})

(* len() of the original strings.                                           *)
CharsOf(line) ==
    CASE line = event_title -> 15
      [] line = event_date -> 16
      [] line = event_time -> 9
      [] line = event_location -> 14
      [] line = event_price -> 25

(* The pixel size glyphs are rendered at: the requested size of a loaded    *)
(* font, the fixed size of the built-in one.                                *)
EmOf(f) == IF f.size > 0 THEN f.size ELSE 10

(* What the renderer reports for a text: draw.textbbox gives the box of     *)
(* the ink (bbox[2] - bbox[0]), draw.textsize the advance from the origin,  *)
(* which is the ink width plus the left bearing.                            *)
MeasuredWidth(how, line, f, g, b) ==
    LET ink == (CharsOf(line) * EmOf(f) * g) \div 16 IN
    IF how = "textbbox" THEN ink ELSE ink + b

(* get_centered_x: `try: draw.textbbox ... except: draw.textsize`.          *)
HelperStrategy(bb) == IF bb = "yes" THEN "textbbox" ELSE "textsize"

(* A box sizing that always asks draw.textsize.                             *)
BoxStrategyCoarse(bb) == "textsize"

(* The location box: `try: draw.textbbox ... except: draw.textsize`.        *)
BoxStrategy(bb) == IF bb = "yes" THEN "textbbox" ELSE "textsize"

(* The subtraction with its operands exchanged.                             *)
get_centered_x_swapped(text_width) ==
    (text_width - Canvas("poster").width) \div 2

(* `return (width - text_width) // 2`, the same in both branches.           *)
get_centered_x(text_width) == (Canvas("poster").width - text_width) \div 2

(* The statements of create_korean_poster after font setup, in order.       *)
PosterSteps ==
    << [op |-> "ctext", line |-> event_title, tier |-> "title",
        color |-> "title_color", y |-> title_y],
       [op |-> "rule", line |-> Ln("", {}), tier |-> "",
        color |-> "accent_color", y |-> line_y],
       [op |-> "ctext", line |-> event_date, tier |-> "subtitle",
        color |-> "accent_color", y |-> date_y],
       [op |-> "ctext", line |-> event_time, tier |-> "body",
        color |-> "text_color", y |-> time_y],
       [op |-> "locx", line |-> event_location, tier |-> "body",
        color |-> "", y |-> location_y],
       [op |-> "box", line |-> event_location, tier |-> "body",
        color |-> "(245, 245, 245)", y |-> location_y],
       [op |-> "ltext", line |-> event_location, tier |-> "body",
        color |-> "text_color", y |-> location_y],
       [op |-> "ctext", line |-> event_price, tier |-> "small",
        color |-> "text_color", y |-> price_y],
       [op |-> "corner", line |-> Ln("", {}), tier |-> "",
        color |-> "accent_color", y |-> 1],
       [op |-> "corner", line |-> Ln("", {}), tier |-> "",
        color |-> "accent_color", y |-> 2],
       [op |-> "corner", line |-> Ln("", {}), tier |-> "",
        color |-> "accent_color", y |-> 3],
       [op |-> "corner", line |-> Ln("", {}), tier |-> "",
        color |-> "accent_color", y |-> 4],
       [op |-> "rule", line |-> Ln("", {}), tier |-> "",
        color |-> "accent_color", y |-> bottom_line_y] >>

PosterAt(op) ==
    /\ pc = "head"
    /\ gen = "poster"
    /\ k < Len(PosterSteps)
    /\ PosterSteps[k + 1].op = op

PosterAdvance ==
    /\ k' = k + 1
    /\ pc' = IF k + 1 = Len(PosterSteps) THEN "save" ELSE "head"
    /\ UNCHANGED <<ctl, hostFonts, hostFS, setup, y_position, out>>

GlyphOutcomes == IF glyph = -1 THEN 0..MaxGlyph ELSE {glyph}
BearingOutcomes == IF bearing = -1 THEN 0..MaxBearing ELSE {bearing}

(* One measurement made by `by`: the host says whether textbbox works (bb), *)
(* the renderer has its glyph advance (g) and bearing (b); `how` is the     *)
(* call that answered and w the width it reported.                          *)
Measured(by, how, line, w, bb, g, b) ==
    /\ bboxOK' = bb
    /\ glyph' = g
    /\ bearing' = IF how = "textsize" THEN b ELSE bearing
    /\ arcOK' = arcOK
    /\ measures' = Append(measures,
          [by |-> by, how |-> how, line |-> line, w |-> w,
           x |-> IF by = "get_centered_x" THEN get_centered_x(w) ELSE 0])

(* `x = get_centered_x(text, font)` followed by draw.text((x, y), ...).     *)
PosterCenteredText ==
    /\ PosterAt("ctext")
    /\ \E bb \in Outcomes(bboxOK), g \in GlyphOutcomes, b \in BearingOutcomes :
          LET st == PosterSteps[k + 1]
              how == HelperStrategy(bb)
              text_width == MeasuredWidth(how, st.line, fonts[st.tier], g, b)
          IN
          /\ Measured("get_centered_x", how, st.line, text_width, bb, g, b)
          /\ cmds' = Append(cmds, Text(get_centered_x(text_width), st.y,
                                       st.line, st.color, st.tier, "la", -1))
    /\ location_x' = location_x
    /\ PosterAdvance

(* The two decorative rules: draw.rectangle([(50, y), (width-50, y+5)])     *)
(* under the title and [(50, y), (width-50, y+3)] at the bottom.            *)
PosterRule ==
    /\ PosterAt("rule")
    /\ LET st == PosterSteps[k + 1]
           thick == IF st.y = line_y THEN 5 ELSE 3 IN
       cmds' = Append(cmds, Shape("rectangle", 50, st.y,
                                  Canvas("poster").width - 50, st.y + thick,
                                  st.color))
    /\ UNCHANGED <<hostDraw, location_x, measures>>
    /\ PosterAdvance

(* `location_x = get_centered_x(event_location, body_font)`.                *)
PosterLocationX ==
    /\ PosterAt("locx")
    /\ \E bb \in Outcomes(bboxOK), g \in GlyphOutcomes, b \in BearingOutcomes :
          LET st == PosterSteps[k + 1]
              how == HelperStrategy(bb)
              text_width == MeasuredWidth(how, st.line, fonts[st.tier], g, b)
          IN
          /\ Measured("get_centered_x", how, st.line, text_width, bb, g, b)
          /\ location_x' = get_centered_x(text_width)
    /\ cmds' = cmds
    /\ PosterAdvance

(* A box that leaves out the inset on its right side.                       *)
BoxRectNoRightInset(x, y, location_width, color) ==
    Shape("rounded_rectangle", x - box_padding, y - box_padding,
          x + location_width, y + 50 + box_padding, color)

(* draw.rounded_rectangle([(location_x - box_padding,                       *)
(*                          location_y - box_padding),                      *)
(*                         (location_x + location_width + box_padding,      *)
(*                          location_y + 50 + box_padding)], ...)           *)
BoxRect(x, y, location_width, color) ==
    Shape("rounded_rectangle", x - box_padding, y - box_padding,
          x + location_width + box_padding, y + 50 + box_padding, color)

(* The second measurement of the location line and the rounded box.         *)
PosterLocationBox ==
    /\ PosterAt("box")
    /\ \E bb \in Outcomes(bboxOK), g \in GlyphOutcomes, b \in BearingOutcomes :
          LET st == PosterSteps[k + 1]
              how == BoxStrategy(bb)
              location_width ==
                 MeasuredWidth(how, st.line, fonts[st.tier], g, b)
          IN
          /\ Measured("box", how, st.line, location_width, bb, g, b)
          /\ cmds' = Append(cmds,
                BoxRect(location_x, st.y, location_width, st.color))
    /\ location_x' = location_x
    /\ PosterAdvance

(* draw.text((location_x, location_y), event_location, ...).                *)
PosterLocationText ==
    /\ PosterAt("ltext")
    /\ LET st == PosterSteps[k + 1] IN
       cmds' = Append(cmds, Text(location_x, st.y, st.line, st.color,
                                 st.tier, "la", -1))
    /\ UNCHANGED <<hostDraw, location_x, measures>>
    /\ PosterAdvance

(* The corners of the `for corner in [...]` loop.                           *)
Corners ==
    LET w == Canvas("poster").width
        h == Canvas("poster").height IN
    << <<50, 50>>, <<w - 50 - corner_size, 50>>,
       <<50, h - 50 - corner_size>>,
       <<w - 50 - corner_size, h - 50 - corner_size>> >>

(* A corner loop whose except clause is missing its fallback: the arc is    *)
(* drawn whatever the renderer answered.                                    *)
CornerCmdArcOnly(corner, a) ==
    Shape("arc", corner[1], corner[2],
          corner[1] + corner_size, corner[2] + corner_size, "accent_color")

(* The draw call one iteration ends with:                                   *)
(*   try: draw.arc([corner, (corner[0]+corner_size, corner[1]+corner_size)],*)
(*                 0, 90, fill=accent_color, width=3)                       *)
(*   except: draw.rectangle([corner, (corner[0]+10, corner[1]+10)], ...)    *)
CornerCmd(corner, a) ==
    IF a = "yes"
    THEN Shape("arc", corner[1], corner[2],
               corner[1] + corner_size, corner[2] + corner_size,
               "accent_color")
    ELSE Shape("rectangle", corner[1], corner[2],
               corner[1] + 10, corner[2] + 10, "accent_color")

(* One iteration of the corner loop.                                        *)
PosterCorner ==
    /\ PosterAt("corner")
    /\ LET corner == Corners[PosterSteps[k + 1].y] IN
       \E a \in Outcomes(arcOK) :
          /\ arcOK' = a
          /\ cmds' = Append(cmds, CornerCmd(corner, a))
    /\ UNCHANGED <<bboxOK, glyph, bearing, location_x, measures>>
    /\ PosterAdvance

-----------------------------------------------------------------------------
(* test-images/test-event.py: every text is drawn at width//2 with          *)
(* anchor='mt'; adv is the `y_position += n` that follows the call.         *)
TechSteps ==
    << [op |-> "text", line |-> Ln("TECH CONFERENCE 2025", {}),
        tier |-> "title", color |-> "blue", adv |-> 80],
       [op |-> "line", line |-> Ln("", {}), tier |-> "", color |-> "gray",
        adv |-> 40],
       [op |-> "text", line |-> Ln("Date: December 15, 2025", {}),
        tier |-> "body", color |-> "black", adv |-> 50],
       [op |-> "text", line |-> Ln("Time: 2:00 PM - 6:00 PM", {}),
        tier |-> "body", color |-> "black", adv |-> 50],
       [op |-> "text", line |-> Ln("Location: COEX Convention Center", {}),
        tier |-> "body", color |-> "black", adv |-> 50],
       [op |-> "text", line |-> Ln("Seoul, South Korea", {}),
        tier |-> "small", color |-> "gray", adv |-> 60],
       [op |-> "line", line |-> Ln("", {}), tier |-> "", color |-> "gray",
        adv |-> 40],
       [op |-> "text",
        line |-> Ln("Join us for the biggest tech event of the year!", {}),
        tier |-> "small", color |-> "black", adv |-> 40],
       [op |-> "text", line |-> Ln("* AI & Machine Learning", {"bullet"}),
        tier |-> "small", color |-> "black", adv |-> 35],
       [op |-> "text", line |-> Ln("* Cloud Computing", {"bullet"}),
        tier |-> "small", color |-> "black", adv |-> 35],
       [op |-> "text", line |-> Ln("* Web Development", {"bullet"}),
        tier |-> "small", color |-> "black", adv |-> 0] >>

(* `y_position = 50`.                                                       *)
TechStart ==
    /\ pc = "head"
    /\ gen = "tech"
    /\ y_position' = 50
    /\ k' = 0
    /\ pc' = "tech"
    /\ UNCHANGED <<ctl, hostFonts, hostDraw, hostFS, setup, cmds, location_x,
                   measures, out>>

(* One draw.text / draw.line statement and the cursor advance after it.     *)
TechDraw ==
    /\ pc = "tech"
    /\ k < Len(TechSteps)
    /\ LET st == TechSteps[k + 1]
           w == Canvas("tech").width IN
       /\ cmds' = Append(cmds,
             IF st.op = "text"
             THEN Text(w \div 2, y_position, st.line, st.color, st.tier,
                       "mt", -1)
             ELSE Shape("line", 100, y_position, w - 100, y_position,
                        st.color))
       /\ y_position' = y_position + st.adv
    /\ k' = k + 1
    /\ pc' = IF k + 1 = Len(TechSteps) THEN "save" ELSE "tech"
    /\ UNCHANGED <<ctl, hostFonts, hostDraw, hostFS, setup, location_x,
                   measures, out>>

-----------------------------------------------------------------------------
Init ==
    /\ prog \in Progs
    /\ pc = IF CreatesDir(prog) THEN "makedirs" ELSE "enter"
    /\ call = 1
    /\ size \in (IF prog = "test_image_call" THEN ArgSizes ELSE {DefaultSize})
    /\ emptyOK \in (IF prog = "test_image_call" /\ IsEmpty(size)
                    THEN {"yes", "no"} ELSE {"?"})
    /\ present = {}
    /\ absent = {}
    /\ loadOK = {}
    /\ loadBad = {}
    /\ defaultHasPath = "?"
    /\ bboxOK = "?"
    /\ arcOK = "?"
    /\ glyph = -1
    /\ bearing = -1
    /\ dirExists = "?"
    /\ writable = "?"
    /\ idx = 1
    /\ font = NoFont
    /\ fonts = NoFonts
    /\ tried = {}
    /\ failedAt = 0
    /\ resolved = << >>
    /\ y_position = 0
    /\ k = 0
    /\ cmds = << >>
    /\ location_x = 0
    /\ measures = << >>
    /\ saved = {}
    /\ truncated = {}
    /\ raisedAt = ""

Next ==
    \/ MakeDirs
    \/ EnterGenerator
    \/ NewImageRaises
    \/ ProbeCandidate
    \/ LoadCandidate
    \/ LoopExhausted
    \/ AfterLoop
    \/ BindTier
    \/ FontFallback
    \/ DrawHead
    \/ DrawLine
    \/ LinesDone
    \/ PosterCenteredText
    \/ PosterRule
    \/ PosterLocationX
    \/ PosterLocationBox
    \/ PosterLocationText
    \/ PosterCorner
    \/ TechStart
    \/ TechDraw
    \/ Save
    \/ Return

Spec == Init /\ [][Next]_vars

-----------------------------------------------------------------------------
(* Properties.                                                              *)

TextCmds == SelectSeq(cmds, LAMBDA c : c.op = "text")
LoopCmds == SelectSeq(cmds, LAMBDA c : c.k >= 0)
Range(seq) == {seq[i] : i \in 1..Len(seq)}
HelperMeasures == {m \in Range(measures) : m.by = "get_centered_x"}
PosterWidth == Canvas("poster").width

(* The font setup of the current call has finished.                         *)
SetupDone == pc \in {"head", "lines", "tech", "save", "returned", "done", "raised"}
                /\ fonts # NoFonts

(* C1 as stated: the x computed for a centered line satisfies               *)
(* 0 <= x <= canvas_width - measured_width when the text fits, is 0 when    *)
(* the text is wider than the canvas, and no negative x reaches draw.text.  *)
C1_Original ==
    /\ \A m \in HelperMeasures :
          /\ m.w <= PosterWidth => (0 <= m.x /\ m.x <= PosterWidth - m.w)
          /\ m.w > PosterWidth => m.x = 0
    /\ \A c \in Range(TextCmds) : c.x >= 0

(* C1 as amended: get_centered_x returns floor((800 - w) / 2), which lies   *)
(* in 0 .. 800 - w when the text fits and is negative, not clamped, when    *)
(* the text is wider than the canvas; every centered draw.text of           *)
(* create_korean_poster is passed that value unchanged.                     *)
C1_CenteredX ==
    /\ \A m \in HelperMeasures :
          /\ 2 * m.x <= PosterWidth - m.w
          /\ PosterWidth - m.w <= 2 * m.x + 1
          /\ m.w <= PosterWidth => (0 <= m.x /\ m.x <= PosterWidth - m.w)
          /\ m.w > PosterWidth => m.x < 0
    /\ gen = "poster" =>
          \A c \in Range(TextCmds) :
             \E m \in HelperMeasures : m.line = c.line /\ c.x = m.x

(* A text wider than the canvas has been measured and drawn at negative x.  *)
C1_Witness ==
    /\ gen = "poster"
    /\ \E m \in HelperMeasures : m.w > PosterWidth
    /\ \E c \in Range(TextCmds) : c.x < 0

(* C2: every draw.text of a line loop is placed inside the canvas,          *)
(* 0 <= y < canvas_height and 0 <= x < canvas_width (stated here for the    *)
(* lines that carry text).                                                  *)
C2_InsideCanvas ==
    gen \in LoopGens =>
       \A c \in Range(LoopCmds) :
          ~IsBlank(c.line) =>
             /\ 0 <= c.y /\ c.y < Canvas(gen).height
             /\ 0 <= c.x /\ c.x < Canvas(gen).width

(* C3 as stated: in every generator a line that starts with a bullet is     *)
(* drawn from the left margin and is never centered.                        *)
C3_Original ==
    \A c \in Range(TextCmds) :
       StartsWithBullet(c.line) =>
          /\ c.anchor = "la"
          /\ gen \in LoopGens => c.x = LeftMargin(gen)

(* C3 as amended: in the line loops (conference, concert, meeting,          *)
(* create_test_image) a line that starts with a bullet is drawn from the    *)
(* left margin, in create_concert_poster although its other lines are       *)
(* drawn from width//2 - 150; test-images/test-event.py draws its bullet    *)
(* lines, like all its lines, centered on width//2 with anchor 'mt'.        *)
C3_BulletsLeft ==
    /\ gen \in LoopGens =>
          \A c \in Range(LoopCmds) :
             /\ StartsWithBullet(c.line) =>
                   (c.anchor = "la" /\ c.x = LeftMargin(gen))
             /\ (gen = "concert" /\ ~StartsWithBullet(c.line)) =>
                   c.x = Canvas(gen).width \div 2 - 150
    /\ gen = "tech" =>
          \A c \in Range(TextCmds) :
             c.anchor = "mt" /\ c.x = Canvas(gen).width \div 2

(* The concert poster has drawn a bullet line and a line that is not one.   *)
C3_Witness ==
    /\ gen = "concert"
    /\ \E c \in Range(LoopCmds) : StartsWithBullet(c.line)
    /\ \E c \in Range(LoopCmds) : ~StartsWithBullet(c.line) /\ ~IsBlank(c.line)

(* The highlight predicate of the code: '티켓' in line or '가격' in line.   *)
Highlighted(line) == HasTicket(line) \/ HasPrice(line)

(* C4 as stated: every line that contains a price/ticket keyword is drawn   *)
(* in the accent colour, whatever other colour would apply to it.           *)
C4_Original ==
    \A c \in Range(TextCmds) :
       Highlighted(c.line) => c.color \in {"#f39c12", "accent_color"}

(* C4 as amended: in create_concert_poster every line that contains '티켓'  *)
(* or '가격' is drawn in the accent colour '#f39c12' and every other line   *)
(* in white; the other generators have no highlight rule:                   *)
(* create_test_image and the conference draw every line, keyword or not,    *)
(* in the one text colour, and create_korean_poster draws its price line    *)
(* in the default text colour.                                              *)
C4_HighlightColour ==
    /\ gen = "concert" =>
          \A c \in Range(LoopCmds) :
             c.color = IF Highlighted(c.line) THEN "#f39c12" ELSE "white"
    /\ gen \in {"test_image", "conference"} =>
          \A c \in Range(TextCmds) : c.color = "black"
    /\ gen = "poster" =>
          \A c \in Range(TextCmds) :
             c.line = event_price => c.color = "text_color"

(* The concert poster has drawn its ticket line and its price line.         *)
C4_Witness ==
    /\ gen = "concert"
    /\ \E c \in Range(LoopCmds) : HasTicket(c.line)
    /\ \E c \in Range(LoopCmds) : HasPrice(c.line)

(* C5 as stated, on the conference's list, which begins ["", L1, L2] with   *)
(* start 120 and pitch 35: after three lines the text commands of the loop  *)
(* are exactly text-at(50,120,L1) and text-at(50,155,L2).                   *)
C5_Original ==
    (gen = "conference" /\ pc = "lines" /\ k = 3) =>
       LoopCmds = << Text(50, 120, details[2], "black", "body", "la", 1),
                     Text(50, 155, details[3], "black", "body", "la", 2) >>

(* C5 as amended: the cursor starts at the start offset and advances by     *)
(* the pitch after every line, blank or not; draw.text is called once for   *)
(* every line, a blank one included (with the empty string), the k-th at    *)
(* y = start + k * pitch, and at x = the left margin in every loop but the  *)
(* concert's.  For the conference's ["", L1, L2] the calls are              *)
(* ("", 50, 120), (L1, 50, 155) and (L2, 50, 190).                          *)
C5_Cursor ==
    (gen \in LoopGens /\ pc \in {"lines", "save", "returned"}) =>
       /\ Len(LoopCmds) = k
       /\ y_position = StartOffset(gen) + k * LinePitch(gen)
       /\ \A j \in 1..Len(LoopCmds) :
             /\ LoopCmds[j].k = j - 1
             /\ LoopCmds[j].line = LinesOf(gen, call)[j]
             /\ LoopCmds[j].y = StartOffset(gen) + (j - 1) * LinePitch(gen)
             /\ gen # "concert" => LoopCmds[j].x = LeftMargin(gen)
       /\ (gen = "conference" /\ k >= 3) =>
             /\ LoopCmds[1] = Text(50, 120, Ln("", {}), "black", "body", "la", 0)
             /\ LoopCmds[2] = Text(50, 155, details[2], "black", "body", "la", 1)
             /\ LoopCmds[3] = Text(50, 190, details[3], "black", "body", "la", 2)

(* The conference loop has gone over its leading blank line and two more.   *)
C5_Witness ==
    /\ gen = "conference"
    /\ pc = "lines"
    /\ k = 3
    /\ IsBlank(LinesOf(gen, call)[1])

(* Every candidate path of the current generator is absent from the host.   *)
NoCandidateExists ==
    /\ gen \in LoopGens \cup {"poster"}
    /\ \A i \in 1..Len(font_paths(gen)) : font_paths(gen)[i] \in absent

(* Every draw call of the current generator has been made.                  *)
DrawingComplete ==
    IF gen \in LoopGens
    THEN Len(cmds) = Len(HeadCmds(gen)) + Len(LinesOf(gen, call))
    ELSE Len(cmds) = Len(PosterSteps) - 1

(* C6: when none of the candidate font paths exists, every tier is bound    *)
(* to the built-in font, and nothing raises in font setup or in a draw      *)
(* call: the generator makes all its draw calls and reaches the save, and   *)
(* only the save itself (a missing directory, an unwritable location) can   *)
(* still end the run.                                                       *)
C6_FallbackCompletes ==
    NoCandidateExists =>
       /\ (pc \in {"head", "lines", "save", "returned", "done"}
             \/ raisedAt = "save") =>
             \A t \in TiersOf(gen) : fonts[t].kind = "default"
       /\ raisedAt \in {"", "save"}
       /\ (pc \in {"save", "returned", "done"} \/ raisedAt = "save") =>
             DrawingComplete

(* A run on a host with none of the candidates has ended normally, with     *)
(* the built-in font in every tier and the file written.                    *)
C6_Witness ==
    /\ NoCandidateExists
    /\ pc = "done"
    /\ \A t \in TiersOf(gen) : fonts[t].kind = "default"
    /\ OutFile(prog, call) \in saved

(* C7: a candidate that exists but fails to load is skipped and the next    *)
(* candidate is tried: once font setup is over, the candidate after one     *)
(* whose load raised has been tested too.                                   *)
C7_NextCandidateTried ==
    (SetupDone /\ failedAt # 0 /\ failedAt < Len(font_paths(gen))) =>
       (failedAt + 1) \in tried

(* C8: on a fixed host, resolving the same candidate list at the same size  *)
(* again yields the same fonts, whatever was resolved in between.           *)
C8_Deterministic ==
    \A i, j \in 1..Len(resolved) :
       resolved[i].gen = resolved[j].gen =>
          resolved[i].fonts = resolved[j].fonts

(* The same list has been resolved twice, to a loaded font.                 *)
C8_Witness ==
    /\ Len(resolved) >= 2
    /\ resolved[1].gen = resolved[2].gen
    /\ resolved[2].fonts["body"].kind = "file"

(* C9: persisting into a directory that does not exist succeeds, the        *)
(* directory being created first: no save fails for a missing directory     *)
(* in a location that is writable.                                          *)
C9_MissingDirCreated ==
    raisedAt = "save" => ~(dirExists = "no" /\ writable = "yes")

(* C10: every measurement is answered by textbbox when it works and by      *)
(* textsize when it does not; the centering helper and the location box     *)
(* get the same width for the same text, and the box is drawn around the    *)
(* x the helper computed with that width.                                   *)
C10_MeasureFailover ==
    /\ \A m \in Range(measures) :
          /\ bboxOK = "yes" => m.how = "textbbox"
          /\ bboxOK = "no" => m.how = "textsize"
    /\ \A m1, m2 \in Range(measures) : m1.line = m2.line => m1.w = m2.w
    /\ \A c \in Range(cmds) :
          c.op = "rounded_rectangle" =>
             \E m \in HelperMeasures :
                /\ m.line = event_location
                /\ c.x = m.x - box_padding
                /\ c.x1 = m.x + m.w + box_padding

(* textbbox has failed and textsize, which reports a different width,       *)
(* has answered both the helper and the box sizing.                         *)
C10_Witness ==
    /\ bboxOK = "no"
    /\ bearing > 0
    /\ \E m \in Range(measures) : m.by = "box" /\ m.how = "textsize" /\ m.w > 0
    /\ \E m \in HelperMeasures : m.line = event_location /\ m.how = "textsize"

-----------------------------------------------------------------------------
(* The draw calls of the corner loop made so far, in order.                 *)
CornerCmds ==
    SelectSeq(cmds, LAMBDA c : c.op = "arc"
                               \/ (c.op = "rectangle" /\ c.x1 - c.x = 10))

(* The poster's draw calls are over.                                        *)
PosterDrawn ==
    gen = "poster" /\ (pc \in {"save", "returned", "done"} \/ raisedAt = "save")

(* C11: the corner loop draws exactly four ornaments, one at each canvas    *)
(* corner with a 50-pixel margin; each is a quarter-arc in a 50x50 box when *)
(* draw.arc works and a square of side 10 at the same corner point in the   *)
(* accent colour when it does not; the loop never raises, and the bottom    *)
(* rule follows the fourth ornament.                                        *)
C11_CornerOrnaments ==
    gen = "poster" =>
       /\ Len(CornerCmds) <= 4
       /\ \A i \in 1..Len(CornerCmds) :
             LET c == CornerCmds[i] IN
             /\ <<c.x, c.y>> = Corners[i]
             /\ c.x \in {50, PosterWidth - 50 - corner_size}
             /\ c.y \in {50, Canvas("poster").height - 50 - corner_size}
             /\ c.color = "accent_color"
             /\ arcOK = "yes" =>
                   (c.op = "arc" /\ c.x1 = c.x + corner_size
                                 /\ c.y1 = c.y + corner_size)
             /\ arcOK = "no" =>
                   (c.op = "rectangle" /\ c.x1 = c.x + 10 /\ c.y1 = c.y + 10)
       /\ raisedAt \in {"", "save"}
       /\ PosterDrawn =>
             /\ Len(CornerCmds) = 4
             /\ cmds[Len(cmds)].op = "rectangle"
             /\ cmds[Len(cmds)].y = bottom_line_y
             /\ cmds[Len(cmds) - 1] = CornerCmds[4]

(* draw.arc has failed, the four squares have been drawn in its place and   *)
(* the poster has gone on to its bottom rule and been saved.                *)
C11_Witness ==
    /\ gen = "poster"
    /\ pc = "done"
    /\ arcOK = "no"
    /\ Len(CornerCmds) = 4
    /\ \A i \in 1..4 : CornerCmds[i].op = "rectangle"
    /\ cmds[Len(cmds)].y = bottom_line_y

-----------------------------------------------------------------------------
(* The positions in cmds of the location box and of the location text.      *)
BoxAt == {i \in 1..Len(cmds) : cmds[i].op = "rounded_rectangle"}
LocationTextAt ==
    {i \in 1..Len(cmds) : cmds[i].op = "text" /\ cmds[i].line = event_location}

-----------------------------------------------------------------------------
(* The tiers of the current generator all come from one candidate file.     *)
AllFromOnePath ==
    \E i \in 1..Len(font_paths(gen)) :
       \A t \in TiersOf(gen) :
          fonts[t].kind = "file" /\ fonts[t].path = font_paths(gen)[i]

(* The tiers of the current generator are all the built-in font.            *)
AllFallback == \A t \in TiersOf(gen) : fonts[t].kind = "default"

(* C13: once font setup is over, the tiers are all loaded from one and the  *)
(* same candidate path or all the built-in font, never a mixture, also      *)
(* when the load of a derived size raised after an earlier size had loaded. *)
C13_AllOrNothing ==
    SetupDone =>
       /\ AllFromOnePath \/ AllFallback
       /\ loadBad \cap {<<fonts[t].path, fonts[t].size>> : t \in TiersOf(gen)}
             # {} => AllFallback

(* A generator with several tiers has loaded its first size from a          *)
(* candidate, the load of a later size from the same file has raised, and   *)
(* the drawing has started with the built-in font in every tier.            *)
C13_Witness ==
    /\ pc = "head"
    /\ fonts # NoFonts
    /\ Cardinality(TiersOf(gen)) >= 2
    /\ AllFallback
    /\ \E i \in 1..Len(font_paths(gen)) :
          /\ \E s \in 0..72 : <<font_paths(gen)[i], s>> \in loadOK
          /\ \E s \in 0..72 : <<font_paths(gen)[i], s>> \in loadBad

-----------------------------------------------------------------------------
(* The canvas create_test_image was asked for has a zero or negative        *)
(* dimension.                                                               *)
InvalidCanvas == gen = "test_image" /\ (IsNegative(size) \/ IsEmpty(size))

(* C14: a canvas with a zero or negative dimension makes the call fail      *)
(* before any output file is written: the call never returns normally and   *)
(* no file is written or left cut short; and no text is drawn with a tier   *)
(* that the generator's font mapping does not hold.                         *)
C14_InvalidInputRejected ==
    /\ InvalidCanvas =>
          /\ pc \notin {"returned", "done"}
          /\ saved = {}
          /\ truncated = {}
    /\ \A c \in Range(TextCmds) : c.tier \in TiersOf(gen)

====
